---- MODULE Spec2Model ----
(***************************************************************************)
(* A model of the hcube piece core: the 16-bit ring encoding of a piece    *)
(* (src/src/piece/mod.rs), its eight symmetry transformations, the public  *)
(* operations of Piece, and the raw enumerator AllPieces                   *)
(* (src/src/enumeration/piece.rs).                                         *)
(*                                                                         *)
(* A u16 is an integer in 0..65535.  Option<T> is a sequence of length at  *)
(* most one: <<>> is None and <<x>> is Some(x).  A Piece is the record     *)
(* [index |-> u16]; equality of records is the derived PartialEq.          *)
(***************************************************************************)
EXTENDS Integers, Sequences, FiniteSets

VARIABLES
    next_index,   \* AllPieces.next_index : Option<u16>
    item,         \* what the last call of AllPieces::next returned : Option<Piece>
    calls,        \* number of calls of next() on this enumerator (history)
    n,            \* the argument of a single call of a transformation
    fn,           \* which function that call was ("none" before the call)
    result,       \* the u16 the call returned (the index, for a Piece)
    start,        \* the piece the caller constructed with from_index
    piece,        \* the piece the caller holds now
    trail,        \* the operations applied to start, oldest first (history)
    cursor,       \* reduced enumeration: the next raw index to process
    emitted       \* reduced enumeration: canonical representatives emitted

vars == <<next_index, item, calls, n, fn, result, start, piece, trail,
          cursor, emitted>>

(***************************************************************************)
(* Program constants and bounds.                                           *)
(***************************************************************************)
bit_length == 16

u16_max_value == 65535

\* Calls of next() made after the enumerator is exhausted.
MaxExtraCalls == 3

\* Longest recorded sequence of Piece operations.
MaxOps == 4

\* Starting pieces have at most MaxBits bits set, or at most MaxBits clear.
MaxBits == 2

U16 == 0..u16_max_value

BitIndices == 0..(bit_length - 1)

(***************************************************************************)
(* bit_field::BitField for u16, as piece/mod.rs uses it.                   *)
(***************************************************************************)
get_bit(x, bit) == (x \div (2 ^ bit)) % 2 = 1

\* value: *self |= 1 << bit;  otherwise: *self &= !(1 << bit)
set_bit(x, bit, value) ==
    IF value
    THEN (IF get_bit(x, bit) THEN x ELSE x + 2 ^ bit)
    ELSE (IF get_bit(x, bit) THEN x - 2 ^ bit ELSE x)

(***************************************************************************)
(* The ring bit-permutation algebra.  Each loop is                         *)
(*   for bit_index in 0..length { result.set_bit(target_index, bit) }      *)
(* started with result = 0.                                                *)
(***************************************************************************)
r0(x) == x

RECURSIVE r1_loop(_, _, _)
r1_loop(x, bit_index, acc) ==
    IF bit_index >= bit_length THEN acc
    ELSE LET bit == get_bit(x, bit_index)
             target_index == (bit_index + 4) % bit_length
         IN  r1_loop(x, bit_index + 1, set_bit(acc, target_index, bit))

\* An arithmetic shift left by four in place of the ring rotation.
r1_shift_left(x) == (x * 16) % (u16_max_value + 1)

r1(x) == r1_loop(x, 0, 0)

RECURSIVE r2_loop(_, _, _)
r2_loop(x, bit_index, acc) ==
    IF bit_index >= bit_length THEN acc
    ELSE LET bit == get_bit(x, bit_index)
             target_index == (bit_index + 8) % bit_length
         IN  r2_loop(x, bit_index + 1, set_bit(acc, target_index, bit))

r2(x) == r2_loop(x, 0, 0)

RECURSIVE r3_loop(_, _, _)
r3_loop(x, bit_index, acc) ==
    IF bit_index >= bit_length THEN acc
    ELSE LET bit == get_bit(x, bit_index)
             target_index == (bit_index + 12) % bit_length
         IN  r3_loop(x, bit_index + 1, set_bit(acc, target_index, bit))

\* An arithmetic shift right by four in place of the rotation by twelve.
r3_shift_right(x) == x \div 16

r3(x) == r3_loop(x, 0, 0)

RECURSIVE t_loop(_, _, _)
t_loop(x, bit_index, acc) ==
    IF bit_index >= bit_length THEN acc
    ELSE LET bit == get_bit(x, bit_index)
             target_index == (bit_length - bit_index) % bit_length
         IN  t_loop(x, bit_index + 1, set_bit(acc, target_index, bit))

\* A plain bit reversal: target_index = length - 1 - bit_index.
RECURSIVE t_reverse_loop(_, _, _)
t_reverse_loop(x, bit_index, acc) ==
    IF bit_index >= bit_length THEN acc
    ELSE LET bit == get_bit(x, bit_index)
             target_index == bit_length - 1 - bit_index
         IN  t_reverse_loop(x, bit_index + 1, set_bit(acc, target_index, bit))

t_reverse(x) == t_reverse_loop(x, 0, 0)

t(x) == t_loop(x, 0, 0)

r1t(x) == t(r1(x))

\* r2t written with the rotation of r1t.
r2t_as_r1t(x) == t(r1(x))

r2t(x) == t(r2(x))

\* r3t written with the rotation of r2t.
r3t_as_r2t(x) == t(r2(x))

r3t(x) == t(r3(x))

(***************************************************************************)
(* Piece and its public operations.                                        *)
(***************************************************************************)
from_index(index) == [index |-> index]

\* rotate_clockwise with the arithmetic shift in place of r1.
rotate_clockwise_shift(p) == from_index(r1_shift_left(p.index))

rotate_clockwise(p) == from_index(r1(p.index))

\* rotate_counter_clockwise calling r1, the rotation of rotate_clockwise.
rotate_counter_clockwise_as_r1(p) == from_index(r1(p.index))

rotate_counter_clockwise(p) == from_index(r3(p.index))

\* flip calling r1 in place of t.
flip_as_r1(p) == from_index(r1(p.index))

flip(p) == from_index(t(p.index))

(***************************************************************************)
(* The raw enumerator AllPieces.                                           *)
(***************************************************************************)
\* all() / AllPieces::new(): a fresh enumerator.
All ==
    /\ next_index' = <<0>>
    /\ item' = <<>>
    /\ calls' = 0
    /\ UNCHANGED <<n, fn, result, start, piece, trail, cursor, emitted>>

\* next() without the test against u16::max_value(): index + 1 wraps.
AllPiecesNextWrapping ==
    /\ calls < u16_max_value + 1 + MaxExtraCalls
    /\ calls' = calls + 1
    /\ IF next_index # <<>>
       THEN LET index == next_index[1]
            IN  /\ next_index' = <<(index + 1) % (u16_max_value + 1)>>
                /\ item' = <<from_index(index)>>
       ELSE /\ item' = <<>>
            /\ UNCHANGED next_index
    /\ UNCHANGED <<n, fn, result, start, piece, trail, cursor, emitted>>

\* AllPieces::next.
AllPiecesNext ==
    /\ calls < u16_max_value + 1 + MaxExtraCalls
    /\ calls' = calls + 1
    /\ IF next_index # <<>>
       THEN LET index == next_index[1]
            IN  /\ next_index' = IF index # u16_max_value
                                 THEN <<index + 1>>
                                 ELSE <<>>
                /\ item' = <<from_index(index)>>
       ELSE /\ item' = <<>>
            /\ UNCHANGED next_index
    /\ UNCHANGED <<n, fn, result, start, piece, trail, cursor, emitted>>

\* The variables of the other parts of the model, at rest.
EnumAtRest == next_index = <<0>> /\ item = <<>> /\ calls = 0

CallAtRest == n = 0 /\ fn = "none" /\ result = 0

PieceAtRest == start = 0 /\ piece = from_index(0) /\ trail = <<>>

ScanAtRest == cursor = 0 /\ emitted = 0

InitEnum == EnumAtRest /\ CallAtRest /\ PieceAtRest /\ ScanAtRest

NextEnum == All \/ AllPiecesNext

SpecEnum == InitEnum /\ [][NextEnum]_vars

(***************************************************************************)
(* A single call of one transformation, or of one public operation on the  *)
(* piece from_index(n), for every u16 argument n.                          *)
(***************************************************************************)
Returns(name, value) ==
    /\ fn = "none"
    /\ fn' = name
    /\ result' = value
    /\ UNCHANGED <<n, next_index, item, calls, start, piece, trail,
                   cursor, emitted>>

CallR0 == Returns("r0", r0(n))

CallR1 == Returns("r1", r1(n))

CallR2 == Returns("r2", r2(n))

CallR3 == Returns("r3", r3(n))

CallT == Returns("t", t(n))

CallR1T == Returns("r1t", r1t(n))

CallR2T == Returns("r2t", r2t(n))

CallR3T == Returns("r3t", r3t(n))

CallRotateClockwise ==
    Returns("rotate_clockwise", rotate_clockwise(from_index(n)).index)

CallFlip == Returns("flip", flip(from_index(n)).index)

InitCall ==
    /\ n \in U16
    /\ fn = "none"
    /\ result = 0
    /\ EnumAtRest /\ PieceAtRest /\ ScanAtRest

NextCall ==
    \/ CallR0 \/ CallR1 \/ CallR2 \/ CallR3
    \/ CallT \/ CallR1T \/ CallR2T \/ CallR3T
    \/ CallRotateClockwise \/ CallFlip

SpecCall == InitCall /\ [][NextCall]_vars

(***************************************************************************)
(* A caller that constructs a piece with from_index and applies the public *)
(* operations to it, one after the other.  The starting indices are the    *)
(* words with at most MaxBits bits set and their complements.              *)
(***************************************************************************)
RECURSIVE Sparse(_)
Sparse(k) ==
    IF k = 0 THEN {0}
    ELSE LET fewer == Sparse(k - 1)
         IN  fewer \cup {set_bit(x, i, TRUE) : x \in fewer, i \in BitIndices}

StartIndices ==
    Sparse(MaxBits) \cup {u16_max_value - x : x \in Sparse(MaxBits)}

\* The eight transformations applied to one index.
Orbit(x) == {r0(x), r1(x), r2(x), r3(x), t(x), r1t(x), r2t(x), r3t(x)}

\* The caller at its start, with the other parts of the model at rest.
InitPiece ==
    /\ start \in StartIndices
    /\ piece = from_index(start)
    /\ trail = <<>>
    /\ EnumAtRest /\ CallAtRest /\ ScanAtRest

\* What an operation on the held piece leaves alone.
PieceFrame ==
    UNCHANGED <<start, next_index, item, calls, n, fn, result,
                cursor, emitted>>

\* The operations, with the sequence applied so far recorded in trail.
TracedRotateClockwise ==
    /\ Len(trail) < MaxOps
    /\ piece' = rotate_clockwise(piece)
    /\ trail' = Append(trail, "rotate_clockwise")
    /\ PieceFrame

TracedRotateCounterClockwise ==
    /\ Len(trail) < MaxOps
    /\ piece' = rotate_counter_clockwise(piece)
    /\ trail' = Append(trail, "rotate_counter_clockwise")
    /\ PieceFrame

TracedFlip ==
    /\ Len(trail) < MaxOps
    /\ piece' = flip(piece)
    /\ trail' = Append(trail, "flip")
    /\ PieceFrame

NextPiece ==
    TracedRotateClockwise \/ TracedRotateCounterClockwise \/ TracedFlip

SpecPiece == InitPiece /\ [][NextPiece]_vars

\* The same operations applied without end, no sequence recorded.
RotateClockwise ==
    /\ piece' = rotate_clockwise(piece)
    /\ UNCHANGED trail
    /\ PieceFrame

RotateCounterClockwise ==
    /\ piece' = rotate_counter_clockwise(piece)
    /\ UNCHANGED trail
    /\ PieceFrame

Flip ==
    /\ piece' = flip(piece)
    /\ UNCHANGED trail
    /\ PieceFrame

NextGroup == RotateClockwise \/ RotateCounterClockwise \/ Flip

SpecGroup == InitPiece /\ [][NextGroup]_vars

(***************************************************************************)
(* The symmetry-reduced enumeration: a pass over the raw indices 0..65535  *)
(* in ascending order that emits an index when it is the smallest of its   *)
(* orbit (the canonical representative) and skips it when a smaller index  *)
(* of its orbit has been met before.                                       *)
(***************************************************************************)
documented_piece_count == 8420

\* x is no larger than any of its eight images.
IsCanonical(x) ==
    /\ x <= r0(x) /\ x <= r1(x) /\ x <= r2(x) /\ x <= r3(x)
    /\ x <= t(x) /\ x <= r1t(x) /\ x <= r2t(x) /\ x <= r3t(x)

ProcessIndex ==
    /\ cursor <= u16_max_value
    /\ emitted' = IF IsCanonical(cursor) THEN emitted + 1 ELSE emitted
    /\ cursor' = cursor + 1
    /\ UNCHANGED <<next_index, item, calls, n, fn, result,
                   start, piece, trail>>

InitScan == ScanAtRest /\ EnumAtRest /\ CallAtRest /\ PieceAtRest

NextScan == ProcessIndex

SpecScan == InitScan /\ [][NextScan]_vars

(***************************************************************************)
(* C1.  On a fresh enumerator the k-th call of next(), for k in 1..65536,  *)
(* returns Some(Piece(k - 1)): the pieces 0, 1, ..., 65535 in ascending    *)
(* order, each once, 65535 included.  Every later call returns None.  The  *)
(* cursor is Some(k) after k < 65536 calls and None from the 65536th call  *)
(* on: it never returns to 0 and never holds 65535 + 1.                    *)
(***************************************************************************)
C1_EnumerationInOrder ==
    /\ calls = 0 => item = <<>>
    /\ (calls >= 1 /\ calls <= u16_max_value + 1) =>
            item = <<from_index(calls - 1)>>
    /\ calls > u16_max_value + 1 => item = <<>>
    /\ calls <= u16_max_value => next_index = <<calls>>
    /\ calls > u16_max_value => next_index = <<>>

\* The enumerator has yielded Piece(65535) and has then been called again
\* MaxExtraCalls times, each call returning None.
C1_Witness ==
    /\ calls = u16_max_value + 1 + MaxExtraCalls
    /\ item = <<>>
    /\ next_index = <<>>

(***************************************************************************)
(* Bit-level statements of a permutation of the ring positions.            *)
(***************************************************************************)
\* out is inp with bit i moved to bit (i + k) mod 16, for every i.
IsRotationBy(out, inp, k) ==
    /\ out \in U16
    /\ \A i \in BitIndices :
           get_bit(out, (i + k) % bit_length) = get_bit(inp, i)

\* out is inp with bit i moved to bit (16 - i) mod 16, for every i.
IsReflection(out, inp) ==
    /\ out \in U16
    /\ \A i \in BitIndices :
           get_bit(out, (bit_length - i) % bit_length) = get_bit(inp, i)

\* out is inp reflected and then rotated by k: bit i moves to
\* ((16 - i) mod 16 + k) mod 16.
IsReflectThenRotateBy(out, inp, k) ==
    /\ out \in U16
    /\ \A i \in BitIndices :
           get_bit(out, (((bit_length - i) % bit_length) + k) % bit_length)
               = get_bit(inp, i)

\* out is inp rotated by k and then reflected: bit i moves to
\* (16 - (i + k) mod 16) mod 16.
IsRotateByThenReflect(out, inp, k) ==
    /\ out \in U16
    /\ \A i \in BitIndices :
           get_bit(out, (bit_length - ((i + k) % bit_length)) % bit_length)
               = get_bit(inp, i)

\* The word with the single bit i set.
SingleBit(i) == 2 ^ i

(***************************************************************************)
(* C2.  For every u16 n, r0, r1, r2 and r3 return n rotated by 0, 4, 8 and *)
(* 12 positions: bit i of n is bit (i + k) mod 16 of the result.  r0       *)
(* returns n itself.  rotate_clockwise moves a single set bit i to         *)
(* (i + 4) mod 16; on 0b10 it gives 0b100000.                              *)
(***************************************************************************)
C2_RotationsPermuteBits ==
    /\ fn = "r0" => (IsRotationBy(result, n, 0) /\ result = n)
    /\ fn = "r1" => IsRotationBy(result, n, 4)
    /\ fn = "r2" => IsRotationBy(result, n, 8)
    /\ fn = "r3" => IsRotationBy(result, n, 12)
    /\ fn = "rotate_clockwise" =>
           /\ \A i \in BitIndices :
                  n = SingleBit(i) => result = SingleBit((i + 4) % bit_length)
           /\ n = 2 => result = 32

\* r3 has been called on a word whose bits wrap around the ring.
C2_Witness == fn = "r3" /\ n = 40961 /\ result = 6656

(***************************************************************************)
(* C3.  For every u16 n, t returns n reflected: bit i of n is bit          *)
(* (16 - i) mod 16 of the result, so bits 0 and 8 stay in place.  flip     *)
(* applies it: on 0b10 it gives 0b1000000000000000.                        *)
(***************************************************************************)
C3_ReflectionPermutesBits ==
    /\ fn = "t" =>
           /\ IsReflection(result, n)
           /\ get_bit(result, 0) = get_bit(n, 0)
           /\ get_bit(result, 8) = get_bit(n, 8)
    /\ fn = "flip" =>
           /\ IsReflection(result, n)
           /\ n = 2 => result = 32768

\* flip has been called on the piece 0b10.
C3_Witness == fn = "flip" /\ n = 2 /\ result = 32768

(***************************************************************************)
(* C9.  The claim as made: r1t, r2t and r3t are reflect-then-rotate by 4,  *)
(* 8 and 12 positions.                                                     *)
(***************************************************************************)
C9_ReflectThenRotate ==
    /\ fn = "r1t" => IsReflectThenRotateBy(result, n, 4)
    /\ fn = "r2t" => IsReflectThenRotateBy(result, n, 8)
    /\ fn = "r3t" => IsReflectThenRotateBy(result, n, 12)

(***************************************************************************)
(* C9, amended.  r1t, r2t and r3t are rotate-by-k-then-reflect for k = 4,  *)
(* 8 and 12; that is, reflect-then-rotate by 12, 8 and 4 positions.        *)
(***************************************************************************)
C9_RotateThenReflect ==
    /\ fn = "r1t" => (IsRotateByThenReflect(result, n, 4)
                        /\ IsReflectThenRotateBy(result, n, 12))
    /\ fn = "r2t" => (IsRotateByThenReflect(result, n, 8)
                        /\ IsReflectThenRotateBy(result, n, 8))
    /\ fn = "r3t" => (IsRotateByThenReflect(result, n, 12)
                        /\ IsReflectThenRotateBy(result, n, 4))

\* r1t has been called on 0b10: bit 1 goes to bit 5 and then to bit 11,
\* where reflect-then-rotate by 4 would put it on bit 3.
C9_Witness == fn = "r1t" /\ n = 2 /\ result = 2048

(***************************************************************************)
(* C4.  For every starting piece p, four rotate_clockwise calls in a row   *)
(* give a piece equal to p.                                                *)
(***************************************************************************)
C4_FourRotationsReturn ==
    trail = <<"rotate_clockwise", "rotate_clockwise",
              "rotate_clockwise", "rotate_clockwise">>
        => piece = from_index(start)

\* Four clockwise rotations of 0b10 have passed through 0b100000 and back.
C4_Witness ==
    /\ trail = <<"rotate_clockwise", "rotate_clockwise",
                 "rotate_clockwise", "rotate_clockwise">>
    /\ start = 2
    /\ piece = from_index(2)

(***************************************************************************)
(* C5.  rotate_counter_clockwise undoes rotate_clockwise and the other way *)
(* round: p.rotate_clockwise().rotate_counter_clockwise() = p and          *)
(* p.rotate_counter_clockwise().rotate_clockwise() = p for every starting  *)
(* piece p.                                                                *)
(***************************************************************************)
C5_RotationsAreInverse ==
    /\ trail = <<"rotate_clockwise", "rotate_counter_clockwise">>
           => piece = from_index(start)
    /\ trail = <<"rotate_counter_clockwise", "rotate_clockwise">>
           => piece = from_index(start)

\* 0b110 has been rotated clockwise and back.
C5_Witness ==
    /\ trail = <<"rotate_clockwise", "rotate_counter_clockwise">>
    /\ start = 6
    /\ piece = from_index(6)

(***************************************************************************)
(* C6.  flip is an involution: p.flip().flip() = p for every starting      *)
(* piece p.                                                                *)
(***************************************************************************)
C6_FlipTwiceReturns ==
    trail = <<"flip", "flip">> => piece = from_index(start)

\* 0b10 has been flipped twice.
C6_Witness ==
    /\ trail = <<"flip", "flip">>
    /\ start = 2
    /\ piece = from_index(2)

(***************************************************************************)
(* C7.  The claim as made: once the pass over 0..65535 is complete, the    *)
(* number of canonical representatives emitted, which is the number of     *)
(* orbits under the eight transformations, is 8420.                        *)
(***************************************************************************)
C7_ReducedCountIsDocumented ==
    cursor = u16_max_value + 1 => emitted = documented_piece_count

\* The orbit of each starting index.
OrbitOfStart == [x \in StartIndices |-> Orbit(x)]

\* The orbits of the starting indices, each once.
StartOrbits == {OrbitOfStart[x] : x \in StartIndices}

(***************************************************************************)
(* C8.  The orbits {g(x)} under the eight transformations partition the    *)
(* indices: every index lies in its own orbit, two orbits are equal or     *)
(* disjoint, and m is in the orbit of x iff x is in the orbit of m.  Here  *)
(* m is the index of the held piece and x any starting index.              *)
(***************************************************************************)
C8_OrbitsPartition ==
    LET m == piece.index
        orbit_m == Orbit(m)
    IN  /\ m \in orbit_m
        /\ start \in OrbitOfStart[start]
        /\ \A o \in StartOrbits : o = orbit_m \/ o \cap orbit_m = {}
        /\ \A x \in StartIndices :
               (m \in OrbitOfStart[x]) <=> (x \in orbit_m)

\* The caller holds 0b1000000000000000, in the orbit of its start 0b10 and
\* of six other starting indices.
C8_Witness ==
    /\ start = 2
    /\ piece = from_index(32768)
    /\ Cardinality({x \in StartIndices : piece.index \in OrbitOfStart[x]}) = 8

\* The pieces one operation away from a piece of S.
OneOperation(S) ==
    {rotate_clockwise(q) : q \in S}
      \cup {rotate_counter_clockwise(q) : q \in S}
      \cup {flip(q) : q \in S}

\* The pieces that some finite sequence of operations reaches from p:
\* found holds those reached so far, frontier the ones not yet operated on.
RECURSIVE ReachableVia(_, _)
ReachableVia(found, frontier) ==
    IF frontier = {} THEN found
    ELSE LET fresh == OneOperation(frontier) \ found
         IN  ReachableVia(found \cup fresh, fresh)

ReachableFrom(p) == ReachableVia({p}, {p})

\* The eight images of a piece.
Images(p) == {from_index(x) : x \in Orbit(p.index)}

(***************************************************************************)
(* C10.  The public operations generate exactly the eight transformations. *)
(* Whatever sequence of rotate_clockwise, rotate_counter_clockwise and     *)
(* flip the caller has applied, the held piece is g(start) for one of the  *)
(* eight g; the pieces that sequences of operations reach from the held    *)
(* piece are exactly its eight images; and the eight transformations are   *)
(* pairwise distinct functions (they differ on 0b10), so that a piece has  *)
(* at most 8 reachable images.                                             *)
(***************************************************************************)
C10_OperationsGenerateTheGroup ==
    /\ piece \in Images(from_index(start))
    /\ ReachableFrom(piece) = Images(piece)
    /\ Cardinality(ReachableFrom(piece)) <= 8
    /\ start = 2 => Cardinality(Images(from_index(start))) = 8

\* From 0b10 the caller has reached its image under r1t, 0b100000000000,
\* and all eight images of 0b10 are distinct.
C10_Witness ==
    /\ start = 2
    /\ piece = from_index(r1t(2))
    /\ piece = from_index(2048)
    /\ Cardinality(ReachableFrom(piece)) = 8

====
